---------------------------- MODULE Spec2Model ----------------------------
(***************************************************************************)
(* Model of scripts/process_safety_data.py: a batch pipeline that reads a  *)
(* survey table, a 2023 incident table and a 2017 street table and writes  *)
(* one JSON document.                                                      *)
(*                                                                         *)
(* Numbers.  The script computes with IEEE-754 binary64 values (Python     *)
(* float).  TLC integers are 32 bits wide, so a binary64 value is modelled *)
(* exactly as <<M, e>>, standing for M * 2^e, where the mantissa M is a    *)
(* natural number held as a little-endian sequence of base-2^15 limbs and  *)
(* is either zero or in 2^52 .. 2^53-1.  Every arithmetic operation is the *)
(* exact rational result rounded to nearest, ties to even, as the hardware *)
(* does it.  Only non-negative, normal, finite values occur.               *)
(*                                                                         *)
(* A decimal numeral of an input file or of the output document with d     *)
(* fractional digits is held as the integer numeral * 10^d.                *)
(***************************************************************************)
EXTENDS Integers, Sequences, FiniteSets, TLC

(***************************************************************************)
(* Natural numbers of arbitrary size: little-endian limbs, no leading zero *)
(* limb, zero is << >>.                                                    *)
(***************************************************************************)
LimbBase == 2 ^ 15

Min(a, b) == IF a < b THEN a ELSE b

RECURSIVE BigNorm(_)
BigNorm(a) ==
  IF a = << >> THEN << >>
  ELSE IF a[Len(a)] = 0 THEN BigNorm(SubSeq(a, 1, Len(a) - 1))
  ELSE a

RECURSIVE BigOfInt(_)
BigOfInt(n) ==
  IF n = 0 THEN << >>
  ELSE <<n % LimbBase>> \o BigOfInt(n \div LimbBase)

RECURSIVE IntOfBig(_)
IntOfBig(a) ==
  IF a = << >> THEN 0
  ELSE a[1] + LimbBase * IntOfBig(Tail(a))

\* -1, 0, 1 as a < b, a = b, a > b
RECURSIVE BigCmpFrom(_, _, _)
BigCmpFrom(a, b, k) ==
  IF k = 0 THEN 0
  ELSE IF a[k] < b[k] THEN -1
  ELSE IF a[k] > b[k] THEN 1
  ELSE BigCmpFrom(a, b, k - 1)

BigCmp(a, b) ==
  IF Len(a) < Len(b) THEN -1
  ELSE IF Len(a) > Len(b) THEN 1
  ELSE BigCmpFrom(a, b, Len(a))

LimbOr0(a) == IF a = << >> THEN 0 ELSE a[1]
TailOrEmpty(a) == IF a = << >> THEN a ELSE Tail(a)

RECURSIVE BigAddC(_, _, _)
BigAddLimb(a, b, s) ==
  <<s % LimbBase>> \o BigAddC(TailOrEmpty(a), TailOrEmpty(b), s \div LimbBase)

BigAddC(a, b, c) ==
  IF a = << >> /\ b = << >> THEN (IF c = 0 THEN << >> ELSE <<c>>)
  ELSE BigAddLimb(a, b, LimbOr0(a) + LimbOr0(b) + c)

BigAdd(a, b) == BigAddC(a, b, 0)

\* a - b, for a >= b
RECURSIVE BigSubB(_, _, _)
BigSubLimb(a, b, d) ==
  <<IF d < 0 THEN d + LimbBase ELSE d>> \o
    BigSubB(Tail(a), TailOrEmpty(b), IF d < 0 THEN 1 ELSE 0)

BigSubB(a, b, c) ==
  IF a = << >> THEN << >> ELSE BigSubLimb(a, b, a[1] - LimbOr0(b) - c)

BigSub(a, b) == BigNorm(BigSubB(a, b, 0))

\* a * k, for 0 <= k < 2^15
RECURSIVE BigMulSmallC(_, _, _)
BigMulLimb(a, k, p) ==
  <<p % LimbBase>> \o BigMulSmallC(Tail(a), k, p \div LimbBase)

BigMulSmallC(a, k, c) ==
  IF a = << >> THEN (IF c = 0 THEN << >> ELSE <<c>>)
  ELSE BigMulLimb(a, k, a[1] * k + c)

BigMulSmall(a, k) == BigNorm(BigMulSmallC(a, k, 0))

\* a * 2^15
BigShiftLimb(a) == IF a = << >> THEN a ELSE <<0>> \o a

RECURSIVE BigMul(_, _)
BigMul(a, b) ==
  IF b = << >> THEN << >>
  ELSE BigAdd(BigMulSmall(a, b[1]), BigShiftLimb(BigMul(a, Tail(b))))

RECURSIVE ZeroLimbs(_)
ZeroLimbs(n) == IF n = 0 THEN << >> ELSE <<0>> \o ZeroLimbs(n - 1)

\* a * 2^k
BigShl(a, k) ==
  IF a = << >> THEN a
  ELSE ZeroLimbs(k \div 15) \o BigMulSmall(a, 2 ^ (k % 15))

RECURSIVE SmallBitLen(_)
SmallBitLen(n) == IF n = 0 THEN 0 ELSE 1 + SmallBitLen(n \div 2)

BigBitLen(a) ==
  IF a = << >> THEN 0
  ELSE 15 * (Len(a) - 1) + SmallBitLen(a[Len(a)])

BigIsOdd(a) == a # << >> /\ a[1] % 2 = 1

(***************************************************************************)
(* Long division, one quotient limb at a time.  d is normalised (its top   *)
(* limb has its top bit set), so the estimate from the two leading limbs   *)
(* of the running remainder is at most 2 too large and is corrected.       *)
(***************************************************************************)
RECURSIVE QuotFix(_, _, _)
QuotFix(r, d, q) ==
  IF BigCmp(BigMulSmall(d, q), r) > 0 THEN QuotFix(r, d, q - 1) ELSE q

QuotEstimate(r, d) ==
  Min(LimbBase - 1,
      ((IF Len(r) > Len(d) THEN r[Len(d) + 1] ELSE 0) * LimbBase + r[Len(d)])
        \div d[Len(d)])

QuotDigit(r, d) ==
  IF Len(r) < Len(d) THEN 0 ELSE QuotFix(r, d, QuotEstimate(r, d))

\* <<quotient, remainder>> of n by normalised d, over the limbs n[1..k],
\* with running remainder r
RECURSIVE LongDiv(_, _, _, _)
PutDigit(rest, q) == << rest[1] \o <<q>>, rest[2] >>

LongDivDigit(n, d, k, r1, q) ==
  PutDigit(LongDiv(n, d, k - 1, BigSub(r1, BigMulSmall(d, q))), q)

LongDivStep(n, d, k, r1) == LongDivDigit(n, d, k, r1, QuotDigit(r1, d))

LongDiv(n, d, k, r) ==
  IF k = 0 THEN << << >>, r >>
  ELSE LongDivStep(n, d, k, BigNorm(<<n[k]>> \o r))

\* <<floor(n / d), 2 * (n mod d) compared with d>>, for d > 0: the second
\* component is -1, 0, 1 as the fraction is below, at, above one half;
\* -2 when the fraction is zero
HalfResult(qr, dn) ==
  << BigNorm(qr[1]),
     IF qr[2] = << >> THEN -2 ELSE BigCmp(BigMulSmall(qr[2], 2), dn) >>

DivHalfNormalised(nn, dn) == HalfResult(LongDiv(nn, dn, Len(nn), << >>), dn)

DivHalfScaled(n, d, f) == DivHalfNormalised(BigMulSmall(n, f), BigMulSmall(d, f))

BigDivHalf(n, d) == DivHalfScaled(n, d, 2 ^ (15 - SmallBitLen(d[Len(d)])))

\* the quotient of qh = BigDivHalf(n, d) rounded to nearest, ties to even
RoundHalfEven(qh) ==
  IF qh[2] = 1 \/ (qh[2] = 0 /\ BigIsOdd(qh[1]))
    THEN BigAdd(qh[1], <<1>>)
    ELSE qh[1]

BigDivRound(n, d) == RoundHalfEven(BigDivHalf(n, d))

(***************************************************************************)
(* binary64: 53 bits of mantissa.                                          *)
(***************************************************************************)
FZero == << << >>, 0 >>

\* a mantissa that rounding carried to 2^53 is renormalised
Normal(m, e) ==
  IF BigBitLen(m) > 53 THEN << BigDivHalf(m, <<2>>)[1], e + 1 >> ELSE << m, e >>

\* a 54-bit quotient, halved to mh = BigDivHalf(q, 2), rounded to 53 bits:
\* up when the dropped bit is set and either more follows or the kept
\* mantissa is odd
RoundWide(mh, sticky) ==
  IF mh[2] = 0 /\ (sticky \/ BigIsOdd(mh[1]))
    THEN BigAdd(mh[1], <<1>>)
    ELSE mh[1]

\* qh = BigDivHalf of a ratio in (2^52, 2^54), scaled by 2^e0
RoundMantissa(qh, e0) ==
  IF BigBitLen(qh[1]) <= 53
    THEN Normal(RoundHalfEven(qh), e0)
    ELSE Normal(RoundWide(BigDivHalf(qh[1], <<2>>), qh[2] # -2), e0 + 1)

\* n * 2^(s - e0) / d lies in (2^52, 2^54)
RoundScaled(n, d, s, e0) ==
  RoundMantissa(BigDivHalf(IF s >= e0 THEN BigShl(n, s - e0) ELSE n,
                           IF s >= e0 THEN d ELSE BigShl(d, e0 - s)),
                e0)

\* the binary64 value nearest to n * 2^s / d (n, d naturals, d > 0)
RoundRat(n, d, s) ==
  IF n = << >> THEN FZero
  ELSE RoundScaled(n, d, s, BigBitLen(n) + s - BigBitLen(d) - 53)

\* float(k) of an int, and of a decimal numeral n / 10^digits (a literal of
\* the script or a cell of an input table)
FOfInt(k) == RoundRat(BigOfInt(k), <<1>>, 0)
FOfDec(n, digits) == RoundRat(BigOfInt(n), BigOfInt(10 ^ digits), 0)

FAddAligned(x, y, e) ==
  RoundRat(BigAdd(BigShl(x[1], x[2] - e), BigShl(y[1], y[2] - e)), <<1>>, e)

FAdd(x, y) ==
  IF x[1] = << >> THEN y
  ELSE IF y[1] = << >> THEN x
  ELSE FAddAligned(x, y, Min(x[2], y[2]))

FMul(x, y) ==
  IF x[1] = << >> \/ y[1] = << >> THEN FZero
  ELSE RoundRat(BigMul(x[1], y[1]), <<1>>, x[2] + y[2])

\* x / y, y # 0
FDiv(x, y) ==
  IF x[1] = << >> THEN FZero ELSE RoundRat(x[1], y[1], x[2] - y[2])

\* x <= y
FLeq(x, y) ==
  IF x[1] = << >> THEN TRUE
  ELSE IF y[1] = << >> THEN FALSE
  ELSE IF x[2] # y[2] THEN x[2] < y[2]
  ELSE BigCmp(x[1], y[1]) <= 0

\* math.floor(x), as an int
FFloor(x) ==
  IF x[1] = << >> THEN 0
  ELSE IF x[2] >= 0 THEN IntOfBig(BigShl(x[1], x[2]))
  ELSE IntOfBig(BigDivHalf(x[1], BigShl(<<1>>, -x[2]))[1])

\* n * 2^e rounded to the nearest integer, ties to even
RoundToInt(n, e) ==
  IF e >= 0 THEN IntOfBig(BigShl(n, e))
  ELSE IntOfBig(BigDivRound(n, BigShl(<<1>>, -e)))

\* float.__round__(x, digits): the decimal with that many fractional digits
\* nearest to the exact value of x, ties to even, as the integer numeral
\* * 10^digits
PyRound(x, digits) ==
  IF x[1] = << >> THEN 0
  ELSE RoundToInt(BigMul(x[1], BigOfInt(10 ^ digits)), x[2])

\* numpy.rint(x)
Rint(x) == IF x[1] = << >> THEN 0 ELSE RoundToInt(x[1], x[2])

\* numpy.float64.__round__(x, digits): rint(x * 10^digits) / 10^digits, as the
\* integer numeral * 10^digits
NpRound(x, digits) == Rint(FMul(x, FOfInt(10 ^ digits)))

(***************************************************************************)
(* round() of a value that pandas hands out.  Series.mean() and the cells  *)
(* of a row are numpy.float64 or float, by the installed release and the   *)
(* dtypes of the table; round() of the first scales, rounds to an integer  *)
(* and unscales, round() of the second rounds the exact value.  A run uses *)
(* one of the two.                                                         *)
(***************************************************************************)
Rounders == {"float", "numpy"}

Round(impl, x, digits) ==
  IF impl = "numpy" THEN NpRound(x, digits) ELSE PyRound(x, digits)

(***************************************************************************)
(* Text.  A column name is a sequence of one-character strings, so that    *)
(* str.lower() and the substring test `token in name` are computed.  A     *)
(* cell of a text column is a string; NaN is pandas' missing value.        *)
(***************************************************************************)
UpperLetters ==
  <<"A","B","C","D","E","F","G","H","I","J","K","L","M",
    "N","O","P","Q","R","S","T","U","V","W","X","Y","Z">>
LowerLetters ==
  <<"a","b","c","d","e","f","g","h","i","j","k","l","m",
    "n","o","p","q","r","s","t","u","v","w","x","y","z">>

LowerChar(c) ==
  IF \E i \in DOMAIN UpperLetters : UpperLetters[i] = c
    THEN LowerLetters[CHOOSE i \in DOMAIN UpperLetters : UpperLetters[i] = c]
    ELSE c

\* c.lower()
lower(name) == [i \in 1..Len(name) |-> LowerChar(name[i])]

\* token in name
Contains(token, name) ==
  \E i \in 0..(Len(name) - Len(token)) :
     SubSeq(name, i + 1, i + Len(token)) = token

NaN == "NaN"
None == << >>

\* the string literals the script searches column names for
TokQuartiereAbita == <<"q","u","a","r","t","i","e","r","e","_","a","b","i","t","a">>
TokQualeQuartiere == <<"q","u","a","l","e","_","q","u","a","r","t","i","e","r","e">>
TokQuartiere == <<"q","u","a","r","t","i","e","r","e">>
TokProblemi == <<"p","r","o","b","l","e","m","i","q","u","a","r","t","i","e","r","e">>
TokScala1 == <<"s","c","a","l","a","_","1">>
TokScala2 == <<"s","c","a","l","a","_","2">>
TokSpaccio == <<"s","p","a","c","c","i","o">>
TokCriminal == <<"c","r","i","m","i","n","a","l">>
TokRagazzini == <<"r","a","g","a","z","z","i","n","i">>
TokIlluminaz == <<"i","l","l","u","m","i","n","a","z">>
TokMarciapiedi == <<"m","a","r","c","i","a","p","i","e","d","i">>
TokBarboni == <<"b","a","r","b","o","n","i">>
TokLatit == <<"l","a","t","i","t">>
TokLongit == <<"l","o","n","g","i","t">>
TokDenominaz == <<"d","e","n","o","m","i","n","a","z">>
TokLuoghi == <<"l","u","o","g","h","i","i","n","s","i","c","u","r","e","z","z","a">>

\* a table: whether its file can be read, its column names in file order,
\* and its rows, each a sequence of cells aligned with the columns
ColumnIndex(table, col) ==
  CHOOSE i \in DOMAIN table.columns : table.columns[i] = col

\* df[col], the cells of one column in row order
Column(table, rows, col) ==
  [i \in DOMAIN rows |-> rows[i][ColumnIndex(table, col)]]

\* a resolution that takes the last match, cols[-1]
Last(cols) == cols[Len(cols)]

\* cols[0]
First(cols) == cols[1]

(***************************************************************************)
(* 1) Survey data: column discovery (lines 16-57)                          *)
(***************************************************************************)
quartiere_col_of(columns) ==
  SelectSeq(columns, LAMBDA c : Contains(TokQuartiereAbita, lower(c))
                                \/ Contains(TokQualeQuartiere, lower(c)))

problem_cols_yes_of(columns) ==
  SelectSeq(columns, LAMBDA c : Contains(TokProblemi, lower(c))
                                /\ Contains(TokScala1, lower(c)))

problem_cols_intensity_of(columns) ==
  SelectSeq(columns, LAMBDA c : Contains(TokProblemi, lower(c))
                                /\ Contains(TokScala2, lower(c)))

ProblemNames ==
  {"spaccio", "criminali", "ragazzini", "illuminazione",
   "degrado_marciapiedi", "barboni"}

ProblemToken ==
  [spaccio |-> TokSpaccio, criminali |-> TokCriminal,
   ragazzini |-> TokRagazzini, illuminazione |-> TokIlluminaz,
   degrado_marciapiedi |-> TokMarciapiedi, barboni |-> TokBarboni]

key_problems_of(columns) ==
  [p \in ProblemNames |->
     SelectSeq(problem_cols_yes_of(columns),
               LAMBDA c : Contains(ProblemToken[p], lower(c)))]

key_intensity_of(columns) ==
  [p \in ProblemNames |->
     SelectSeq(problem_cols_intensity_of(columns),
               LAMBDA c : Contains(ProblemToken[p], lower(c)))]

\* lines 51-57: the first primary match, else the first column whose
\* lower-cased name contains 'quartiere', else None
q_col_of(columns) ==
  LET quartiere_col == quartiere_col_of(columns)
      fallback == SelectSeq(columns,
                            LAMBDA c : Contains(TokQuartiere, lower(c)))
  IN  IF quartiere_col # << >> THEN First(quartiere_col)
      ELSE IF fallback # << >> THEN fallback[1]
      ELSE None

(***************************************************************************)
(* 1) Survey data: per-neighborhood scores (lines 64-107)                  *)
(***************************************************************************)
intensity_map ==
  ("Molto" :> FOfDec(10, 1)) @@ ("Moltissimo" :> FOfDec(10, 1)) @@
  ("Abbastanza" :> FOfDec(7, 1)) @@ ("Poco" :> FOfDec(3, 1)) @@
  ("Per nulla" :> FOfDec(0, 1))

yes_map ==
  ("Sì" :> FOfDec(10, 1)) @@ ("No" :> FOfDec(0, 1)) @@ ("Si" :> FOfDec(10, 1))

\* a normaliser that scores a cell the table lacks as 0.0, as fillna(0) would
RECURSIVE MapFillZero(_, _)
MapFillZero(cells, table) ==
  IF cells = << >> THEN << >>
  ELSE <<IF cells[1] \in DOMAIN table THEN table[cells[1]] ELSE FZero>>
       \o MapFillZero(Tail(cells), table)

\* Series.map(table): the mapped value of every cell the table has, in row
\* order; a cell the table lacks maps to NaN, which mean() skips
RECURSIVE MapNotNa(_, _)
MapNotNa(cells, table) ==
  IF cells = << >> THEN << >>
  ELSE (IF cells[1] \in DOMAIN table THEN <<table[cells[1]]>> ELSE << >>)
       \o MapNotNa(Tail(cells), table)

RECURSIVE FSum(_)
FSum(values) ==
  IF values = << >> THEN FZero
  ELSE FAdd(FSum(SubSeq(values, 1, Len(values) - 1)), values[Len(values)])

\* Series.mean() of the non-NaN values: << >> stands for NaN
Mean(values) ==
  IF values = << >> THEN << >>
  ELSE << FDiv(FSum(values), FOfInt(Len(values))) >>

\* round(m, 3) if not pd.isna(m) else 0.0, as a numeral * 10^3
RoundedOrZero(impl, m) == IF m = << >> THEN 0 ELSE Round(impl, m[1], 3)

\* the weights of lines 94-101, in the order sum() meets them
WeightOrder ==
  <<"spaccio", "criminali", "ragazzini", "illuminazione",
    "degrado_marciapiedi", "barboni">>

\* weights that give every problem the weight of the first
weights_uniform ==
  [spaccio |-> FOfDec(25, 2), criminali |-> FOfDec(25, 2),
   ragazzini |-> FOfDec(25, 2), illuminazione |-> FOfDec(25, 2),
   degrado_marciapiedi |-> FOfDec(25, 2), barboni |-> FOfDec(25, 2)]

weights ==
  [spaccio |-> FOfDec(25, 2), criminali |-> FOfDec(25, 2),
   ragazzini |-> FOfDec(15, 2), illuminazione |-> FOfDec(15, 2),
   degrado_marciapiedi |-> FOfDec(10, 2), barboni |-> FOfDec(10, 2)]

\* scores.get(k, 0) * w
Weighted(rate, p) ==
  IF p \in DOMAIN rate THEN FMul(FOfDec(rate[p], 3), weights[p]) ELSE FZero

\* sum(scores.get(k, 0) * w for k, w in weights.items()), over the first n
RECURSIVE RiskSum(_, _)
RiskSum(rate, n) ==
  IF n = 0 THEN FZero
  ELSE FAdd(RiskSum(rate, n - 1), Weighted(rate, WeightOrder[n]))

\* the scores dict of one group: '<problem>_rate' and '<problem>_intensity'
\* are the entries rate[problem] and intensity[problem], present only for
\* a problem with a resolved column; fractions are numerals * 10^3
RatesOf(impl, table, group, keys, map) ==
  [p \in {x \in ProblemNames : keys[x] # << >>} |->
     RoundedOrZero(impl,
       Mean(MapNotNa(Column(table, group, First(keys[p])), map)))]

ScoresWith(impl, rate, intensity, count) ==
  [rate |-> rate,
   intensity |-> intensity,
   risk_score |-> Round(impl, RiskSum(rate, Len(WeightOrder)), 3),
   count |-> count]

ScoresOf(impl, table, group, kp, ki) ==
  ScoresWith(impl,
             RatesOf(impl, table, group, kp, yes_map),
             RatesOf(impl, table, group, ki, intensity_map),
             Len(group))

\* df.groupby(q_col): one group per distinct non-NaN value, rows in order
GroupKeys(table, col) ==
  {table.rows[i][ColumnIndex(table, col)] : i \in DOMAIN table.rows} \ {NaN}

GroupRows(table, col, key) ==
  SelectSeq(table.rows, LAMBDA r : r[ColumnIndex(table, col)] = key)

neighborhood_scores_of(impl, table, col, kp, ki) ==
  [q \in GroupKeys(table, col) |->
     ScoresOf(impl, table, GroupRows(table, col, q), kp, ki)]

(***************************************************************************)
(* 2) Incident data 2023 (lines 117-148).  A coordinate cell is the        *)
(* numeral * 10^6 of the file; pandas parses it to the nearest binary64.   *)
(***************************************************************************)
CoordDigits == 6

lat_cols_of(columns) ==
  SelectSeq(columns, LAMBDA c : Contains(TokLatit, lower(c)))

lon_cols_of(columns) ==
  SelectSeq(columns, LAMBDA c : Contains(TokLongit, lower(c)))

LatMin == FOfDec(4102, 2)
LatMax == FOfDec(4117, 2)
LonMin == FOfDec(1672, 2)
LonMax == FOfDec(1708, 2)

\* a mask with the bounds excluded, > and < for >= and <=
InBariMaskOpen(lat, lon) ==
  /\ ~FLeq(lat, LatMin) /\ ~FLeq(LatMax, lat)
  /\ ~FLeq(lon, LonMin) /\ ~FLeq(LonMax, lon)

\* the mask of lines 122-123, on the parsed values
InBariMask(lat, lon) ==
  /\ FLeq(LatMin, lat) /\ FLeq(lat, LatMax)
  /\ FLeq(LonMin, lon) /\ FLeq(lon, LonMax)

\* df_2023[mask]: the rows the mask keeps, in file order
df_bari_of(table, latc, lonc) ==
  SelectSeq(table.rows,
            LAMBDA r : InBariMask(FOfDec(r[ColumnIndex(table, latc)], CoordDigits),
                                  FOfDec(r[ColumnIndex(table, lonc)], CoordDigits)))

GRID_LAT == FOfDec(3, 3)
GRID_LON == FOfDec(4, 3)

\* round(math.floor(v / step) * step, 4), as a numeral * 10^4
GridCoord(v, step) == PyRound(FMul(FOfInt(FFloor(FDiv(v, step))), step), 4)

\* f"{glat},{glon}": the string is held as the pair of its two numerals
grid_key(lat, lon) == << GridCoord(lat, GRID_LAT), GridCoord(lon, GRID_LON) >>

\* a counter that records a key without incrementing it, grid_counts[key] = 1
CountKeyOnce(counts, key) ==
  IF key \in DOMAIN counts THEN counts ELSE counts @@ (key :> 1)

\* grid_counts[key] = grid_counts.get(key, 0) + 1
CountKey(counts, key) ==
  IF key \in DOMAIN counts
    THEN [counts EXCEPT ![key] = @ + 1]
    ELSE counts @@ (key :> 1)

\* [round(lat, 5), round(lon, 5)], as numerals * 10^5
PointOf(impl, lat, lon) == << Round(impl, lat, 5), Round(impl, lon, 5) >>

(***************************************************************************)
(* 3) Sinistri 2017 (lines 153-158) and 4) unsafe places (lines 164-173)   *)
(***************************************************************************)
street_cols_of(columns) ==
  SelectSeq(columns, LAMBDA c : Contains(TokDenominaz, lower(c)))

\* Series.value_counts().to_dict(): occurrences of each non-NaN value
value_counts(cells) ==
  [k \in {cells[i] : i \in DOMAIN cells} \ {NaN} |->
     Cardinality({i \in DOMAIN cells : cells[i] = k})]

\* a threshold of more than 2, v > 2 for v >= 2
street_danger_above(street_incidents) ==
  [k \in {x \in DOMAIN street_incidents :
            street_incidents[x] > 2 /\ x # NaN} |-> street_incidents[k]]

\* {k: v for k, v in street_incidents.items() if v >= 2 and pd.notna(k)}
street_danger_of(street_incidents) ==
  [k \in {x \in DOMAIN street_incidents :
            street_incidents[x] >= 2 /\ x # NaN} |-> street_incidents[k]]

unsafe_places_cols_of(columns) ==
  SelectSeq(columns, LAMBDA c : Contains(TokLuoghi, lower(c)))

unsafe_places_of(table) ==
  LET cols == unsafe_places_cols_of(table.columns)
  IN  [c \in {cols[i] : i \in DOMAIN cols} |->
         Cardinality({i \in DOMAIN table.rows :
                        table.rows[i][ColumnIndex(table, c)] = "Selezionato"})]

(***************************************************************************)
(* 5) Output (lines 182-195)                                               *)
(***************************************************************************)
PointCap == 500

\* a cut that keeps the last 500, incident_points[-500:]
CappedLast(points) ==
  SubSeq(points,
         IF Len(points) < PointCap THEN 1 ELSE Len(points) - PointCap + 1,
         Len(points))

\* incident_points[:500]
Capped(points) ==
  SubSeq(points, 1, IF Len(points) < PointCap THEN Len(points) ELSE PointCap)

OutputOf(scores, grid, streets, points) ==
  [neighborhoodScores |-> scores,
   incidentGrid |-> grid,
   gridConfig |-> [latStep |-> GRID_LAT, lonStep |-> GRID_LON],
   dangerousStreets |-> streets,
   incidentPoints2023 |-> Capped(points)]

(***************************************************************************)
(* The run.  input holds the three files as they are on disk; the other    *)
(* variables are the script's globals, the loop index i of the two passes  *)
(* over df_bari, the position pc in the script, the exception that ended   *)
(* the run, the content of the output path and the number of times it was  *)
(* written.                                                                *)
(***************************************************************************)
VARIABLES input, pc, error, df, key_problems, key_intensity, q_col,
          neighborhood_scores, lat_col, lon_col, df_bari, i, grid_counts,
          incident_points, street_danger, unsafe_places, outfile, writes

vars == <<input, pc, error, df, key_problems, key_intensity, q_col,
          neighborhood_scores, lat_col, lon_col, df_bari, i, grid_counts,
          incident_points, street_danger, unsafe_places, outfile, writes>>

surveyVars == <<df, key_problems, key_intensity, q_col, neighborhood_scores>>
incidentVars == <<lat_col, lon_col, df_bari, i, grid_counts, incident_points>>
tailVars == <<street_danger, unsafe_places, outfile, writes>>

NoTable == [exists |-> FALSE, columns |-> << >>, rows |-> << >>]

Start ==
  /\ pc = "survey"
  /\ error = ""
  /\ df = NoTable
  /\ key_problems = [p \in ProblemNames |-> << >>]
  /\ key_intensity = [p \in ProblemNames |-> << >>]
  /\ q_col = None
  /\ neighborhood_scores = << >>
  /\ lat_col = None
  /\ lon_col = None
  /\ df_bari = << >>
  /\ i = 0
  /\ grid_counts = << >>
  /\ incident_points = << >>
  /\ street_danger = << >>
  /\ unsafe_places = << >>
  /\ outfile = << >>
  /\ writes = 0

Abort(exception) ==
  /\ pc' = "aborted"
  /\ error' = exception

\* line 13
ReadSurvey ==
  /\ pc = "survey"
  /\ input.survey.exists
  /\ df' = input.survey
  /\ pc' = "resolve"
  /\ UNCHANGED <<input, error, key_problems, key_intensity, q_col,
                 neighborhood_scores, incidentVars, tailVars>>

ReadSurveyFails ==
  /\ pc = "survey"
  /\ ~input.survey.exists
  /\ Abort("FileNotFoundError")
  /\ UNCHANGED <<input, surveyVars, incidentVars, tailVars>>

\* lines 16-57
ResolveColumns ==
  /\ pc = "resolve"
  /\ key_problems' = key_problems_of(df.columns)
  /\ key_intensity' = key_intensity_of(df.columns)
  /\ q_col' = q_col_of(df.columns)
  /\ pc' = "scores"
  /\ UNCHANGED <<input, error, df, neighborhood_scores, incidentVars, tailVars>>

\* line 60, df[q_col] with q_col None
QuartiereColumnMissing ==
  /\ pc = "scores"
  /\ q_col = None
  /\ Abort("KeyError")
  /\ UNCHANGED <<input, surveyVars, incidentVars, tailVars>>

\* lines 75-107
ScoreNeighborhoods ==
  /\ pc = "scores"
  /\ q_col # None
  /\ \E impl \in Rounders :
       neighborhood_scores' =
         neighborhood_scores_of(impl, df, q_col, key_problems, key_intensity)
  /\ pc' = "incidents"
  /\ UNCHANGED <<input, error, df, key_problems, key_intensity, q_col,
                 incidentVars, tailVars>>

\* lines 117-124
ReadIncidents ==
  /\ pc = "incidents"
  /\ input.incidents.exists
  /\ lat_cols_of(input.incidents.columns) # << >>
  /\ lon_cols_of(input.incidents.columns) # << >>
  /\ lat_col' = First(lat_cols_of(input.incidents.columns))
  /\ lon_col' = First(lon_cols_of(input.incidents.columns))
  /\ df_bari' = df_bari_of(input.incidents, lat_col', lon_col')
  /\ i' = 0
  /\ pc' = "grid"
  /\ UNCHANGED <<input, error, surveyVars, grid_counts, incident_points,
                 tailVars>>

ReadIncidentsFails ==
  /\ pc = "incidents"
  /\ ~input.incidents.exists
  /\ Abort("FileNotFoundError")
  /\ UNCHANGED <<input, surveyVars, incidentVars, tailVars>>

\* lines 118-119, [...][0] of an empty list
CoordinateColumnMissing ==
  /\ pc = "incidents"
  /\ input.incidents.exists
  /\ ~ ( /\ lat_cols_of(input.incidents.columns) # << >>
         /\ lon_cols_of(input.incidents.columns) # << >> )
  /\ Abort("IndexError")
  /\ UNCHANGED <<input, surveyVars, incidentVars, tailVars>>

Lat(row) == FOfDec(row[ColumnIndex(input.incidents, lat_col)], CoordDigits)
Lon(row) == FOfDec(row[ColumnIndex(input.incidents, lon_col)], CoordDigits)

\* lines 138-140, one iteration
BinRow ==
  /\ pc = "grid"
  /\ i < Len(df_bari)
  /\ grid_counts' =
       CountKey(grid_counts, grid_key(Lat(df_bari[i + 1]), Lon(df_bari[i + 1])))
  /\ i' = i + 1
  /\ UNCHANGED <<input, pc, error, surveyVars, lat_col, lon_col, df_bari,
                 incident_points, tailVars>>

\* lines 142-146
GridSummary ==
  /\ pc = "grid"
  /\ i = Len(df_bari)
  /\ DOMAIN grid_counts # {}
  /\ i' = 0
  /\ pc' = "points"
  /\ UNCHANGED <<input, error, surveyVars, lat_col, lon_col, df_bari,
                 grid_counts, incident_points, tailVars>>

\* line 143, max() of an empty sequence
GridSummaryFails ==
  /\ pc = "grid"
  /\ i = Len(df_bari)
  /\ DOMAIN grid_counts = {}
  /\ Abort("ValueError")
  /\ UNCHANGED <<input, surveyVars, incidentVars, tailVars>>

\* lines 147-148, one iteration
PointRow ==
  /\ pc = "points"
  /\ i < Len(df_bari)
  /\ \E impl \in Rounders :
       incident_points' =
         Append(incident_points,
                PointOf(impl, Lat(df_bari[i + 1]), Lon(df_bari[i + 1])))
  /\ i' = i + 1
  /\ UNCHANGED <<input, pc, error, surveyVars, lat_col, lon_col, df_bari,
                 grid_counts, tailVars>>

\* lines 153-158
ReadStreets ==
  /\ pc = "points"
  /\ i = Len(df_bari)
  /\ input.streets.exists
  /\ street_cols_of(input.streets.columns) # << >>
  /\ street_danger' =
       street_danger_of(value_counts(
         Column(input.streets, input.streets.rows,
                First(street_cols_of(input.streets.columns)))))
  /\ pc' = "unsafe"
  /\ UNCHANGED <<input, error, surveyVars, incidentVars, unsafe_places,
                 outfile, writes>>

ReadStreetsFails ==
  /\ pc = "points"
  /\ i = Len(df_bari)
  /\ ~input.streets.exists
  /\ Abort("FileNotFoundError")
  /\ UNCHANGED <<input, surveyVars, incidentVars, tailVars>>

\* line 154, [...][0] of an empty list
StreetColumnMissing ==
  /\ pc = "points"
  /\ i = Len(df_bari)
  /\ input.streets.exists
  /\ street_cols_of(input.streets.columns) = << >>
  /\ Abort("IndexError")
  /\ UNCHANGED <<input, surveyVars, incidentVars, tailVars>>

\* lines 164-177
UnsafePlaces ==
  /\ pc = "unsafe"
  /\ unsafe_places' = unsafe_places_of(df)
  /\ pc' = "write"
  /\ UNCHANGED <<input, error, surveyVars, incidentVars, street_danger,
                 outfile, writes>>

\* a script that writes what it has before it reads the 2017 records
WriteBeforeStreets ==
  /\ pc = "points"
  /\ i = Len(df_bari)
  /\ writes = 0
  /\ outfile' = << OutputOf(neighborhood_scores, grid_counts, << >>,
                            incident_points) >>
  /\ writes' = writes + 1
  /\ UNCHANGED <<input, pc, error, surveyVars, incidentVars, street_danger,
                 unsafe_places>>

\* lines 182-195
WriteOutput ==
  /\ pc = "write"
  /\ outfile' = << OutputOf(neighborhood_scores, grid_counts, street_danger,
                            incident_points) >>
  /\ writes' = writes + 1
  /\ pc' = "done"
  /\ UNCHANGED <<input, error, surveyVars, incidentVars, street_danger,
                 unsafe_places>>

Next ==
  \/ ReadSurvey
  \/ ReadSurveyFails
  \/ ResolveColumns
  \/ QuartiereColumnMissing
  \/ ScoreNeighborhoods
  \/ ReadIncidents
  \/ ReadIncidentsFails
  \/ CoordinateColumnMissing
  \/ BinRow
  \/ GridSummary
  \/ GridSummaryFails
  \/ PointRow
  \/ ReadStreets
  \/ ReadStreetsFails
  \/ StreetColumnMissing
  \/ UnsafePlaces
  \/ WriteOutput

(***************************************************************************)
(* The files a run may find.  Column names as they could appear in the     *)
(* three tables.                                                           *)
(***************************************************************************)
\* 'ID'
ColId ==
  <<"I","D">>
\* 'Quartiere_Abita'
ColQAbita ==
  <<"Q","u","a","r","t","i","e","r","e","_","A","b","i","t","a">>
\* 'quale_QUARTIERE_vive'
ColQQuale ==
  <<"q","u","a","l","e","_","Q","U","A","R","T","I","E","R","E","_","v","i","v","e">>
\* 'Quartiere'
ColQBare ==
  <<"Q","u","a","r","t","i","e","r","e">>
\* 'Zona'
ColZona ==
  <<"Z","o","n","a">>
\* 'ProblemiQuartiere_Spaccio_Scala_1'
ColSpaccio1 ==
  <<"P","r","o","b","l","e","m","i","Q","u","a","r","t","i","e","r","e","_","S","p","a","c","c","i","o","_","S","c","a","l","a","_","1">>
\* 'ProblemiQuartiere_Spaccio_Scala_2'
ColSpaccio2 ==
  <<"P","r","o","b","l","e","m","i","Q","u","a","r","t","i","e","r","e","_","S","p","a","c","c","i","o","_","S","c","a","l","a","_","2">>
\* 'problemiquartiere_SPACCIO_bis_scala_1'
ColSpaccio1b ==
  <<"p","r","o","b","l","e","m","i","q","u","a","r","t","i","e","r","e","_","S","P","A","C","C","I","O","_","b","i","s","_","s","c","a","l","a","_","1">>
\* 'problemiquartiere_SPACCIO_bis_scala_2'
ColSpaccio2b ==
  <<"p","r","o","b","l","e","m","i","q","u","a","r","t","i","e","r","e","_","S","P","A","C","C","I","O","_","b","i","s","_","s","c","a","l","a","_","2">>
\* 'Spaccio_Scala_1'
ColSpaccioOther ==
  <<"S","p","a","c","c","i","o","_","S","c","a","l","a","_","1">>
\* 'problemiquartiere_famiglieCriminali_scala_1'
ColCriminali1 ==
  <<"p","r","o","b","l","e","m","i","q","u","a","r","t","i","e","r","e","_","f","a","m","i","g","l","i","e","C","r","i","m","i","n","a","l","i","_","s","c","a","l","a","_","1">>
\* 'problemiquartiere_ragazzini_scala_1'
ColRagazzini1 ==
  <<"p","r","o","b","l","e","m","i","q","u","a","r","t","i","e","r","e","_","r","a","g","a","z","z","i","n","i","_","s","c","a","l","a","_","1">>
\* 'problemiquartiere_illuminazione_scala_1'
ColIlluminaz1 ==
  <<"p","r","o","b","l","e","m","i","q","u","a","r","t","i","e","r","e","_","i","l","l","u","m","i","n","a","z","i","o","n","e","_","s","c","a","l","a","_","1">>
\* 'problemiquartiere_marciapiedi_scala_1'
ColMarciapiedi1 ==
  <<"p","r","o","b","l","e","m","i","q","u","a","r","t","i","e","r","e","_","m","a","r","c","i","a","p","i","e","d","i","_","s","c","a","l","a","_","1">>
\* 'problemiquartiere_barboni_scala_1'
ColBarboni1 ==
  <<"p","r","o","b","l","e","m","i","q","u","a","r","t","i","e","r","e","_","b","a","r","b","o","n","i","_","s","c","a","l","a","_","1">>
\* 'LuoghiInsicurezza_Parco'
ColLuoghiParco ==
  <<"L","u","o","g","h","i","I","n","s","i","c","u","r","e","z","z","a","_","P","a","r","c","o">>
\* 'luoghiinsicurezza_stazione'
ColLuoghiStazione ==
  <<"l","u","o","g","h","i","i","n","s","i","c","u","r","e","z","z","a","_","s","t","a","z","i","o","n","e">>
\* 'Latitudine'
ColLat ==
  <<"L","a","t","i","t","u","d","i","n","e">>
\* 'LONGITUDINE'
ColLon ==
  <<"L","O","N","G","I","T","U","D","I","N","E">>
\* 'latitudine_gps'
ColLat2 ==
  <<"l","a","t","i","t","u","d","i","n","e","_","g","p","s">>
\* 'Data'
ColData ==
  <<"D","a","t","a">>
\* 'Denominazione_Strada'
ColStreet ==
  <<"D","e","n","o","m","i","n","a","z","i","o","n","e","_","S","t","r","a","d","a">>
\* 'Strada'
ColStreetOther ==
  <<"S","t","r","a","d","a">>

Table(columns, rows) == [exists |-> TRUE, columns |-> columns, rows |-> rows]

SeqsUpTo(S, n) == UNION {[1..k -> S] : k \in 0..n}

MaxSurveyRows == 3
MaxColumns == 3
MaxIncidents == 2
MaxStreetRows == 3
MaxOverCap == 2

\* survey respondents: neighborhood, spaccio yes/no, spaccio intensity,
\* criminali yes/no, one unsafe place
AnswerColumns ==
  <<ColQAbita, ColSpaccio1, ColSpaccio2, ColCriminali1, ColLuoghiParco>>

AnswerRows ==
  { <<"A", "Sì", "Molto", "No", "Selezionato">>,
    <<"A", "Si", "Abbastanza", "Sì", "Non selezionato">>,
    <<"A", "No", "Poco", "No", NaN>>,
    <<"A", "Non so", NaN, NaN, "Selezionato">>,
    <<"B", "Sì", "Per nulla", "Sì", "Selezionato">>,
    <<"B", NaN, "Moltissimo", "No", NaN>> }

AnswerSurveys ==
  {Table(AnswerColumns, rows) : rows \in SeqsUpTo(AnswerRows, MaxSurveyRows)}

\* survey respondents answering the six yes/no questions, and nothing else
\* than the neighborhood
SixColumns ==
  <<ColQBare, ColSpaccio1, ColCriminali1, ColRagazzini1, ColIlluminaz1,
    ColMarciapiedi1, ColBarboni1>>

SixRows ==
  { <<"A", "Sì", "Sì", "Sì", "Sì", "Sì", "Sì">>,
    <<"A", "No", "No", "No", "No", "No", "No">>,
    <<"A", "Sì", "No", "Sì", "No", "No", "Sì">>,
    <<"A", "No", "Sì", "No", "Sì", "Sì", NaN>> }

SixSurveys ==
  {Table(SixColumns, rows) : rows \in SeqsUpTo(SixRows, MaxSurveyRows)}

\* the survey of the specification's scenario: only the spaccio yes/no
\* column, three respondents of one neighborhood
SpaccioOnlySurveys ==
  {Table(<<ColQAbita, ColSpaccio1>>, rows) :
     rows \in SeqsUpTo({<<"A", "Sì">>, <<"A", "No">>}, MaxSurveyRows)}

\* surveys whose columns come in every order: two respondents, the cells
\* of a column fixed by the column
LayoutPool ==
  {ColQBare, ColQQuale, ColQAbita, ColSpaccio1, ColSpaccio1b, ColSpaccio2,
   ColSpaccio2b, ColSpaccioOther}

LayoutCells(c) ==
  IF c = ColQBare THEN <<"A", "B">>
  ELSE IF c = ColQQuale THEN <<"C", "C">>
  ELSE IF c = ColQAbita THEN <<"D", NaN>>
  ELSE IF c = ColSpaccio1 THEN <<"Sì", "No">>
  ELSE IF c = ColSpaccio1b THEN <<"No", "No">>
  ELSE IF c = ColSpaccio2 THEN <<"Molto", "Poco">>
  ELSE IF c = ColSpaccio2b THEN <<"Poco", "Poco">>
  ELSE <<"Sì", "Sì">>

Layouts ==
  {cols \in SeqsUpTo(LayoutPool, MaxColumns) :
     \A a, b \in DOMAIN cols : a # b => cols[a] # cols[b]}

LayoutSurveys ==
  {Table(cols, [r \in 1..2 |-> [c \in DOMAIN cols |-> LayoutCells(cols[c])[r]]]) :
     cols \in Layouts}

BaseSurvey ==
  Table(AnswerColumns, << <<"A", "Sì", "Molto", "No", "Selezionato">>,
                          <<"B", "No", "Poco", "Sì", NaN>> >>)

\* incidents: a year, the latitude and the longitude, as numerals * 10^6
IncidentColumns == <<ColData, ColLat, ColLon>>

PointChoices ==
  { <<41020000, 16720000>>, <<41171000, 17080000>>, <<41170000, 17080000>>,
    <<41019999, 16720000>>, <<41100000, 16800000>>, <<41160000, 16804000>>,
    <<41050000, 16800000>>, <<41050500, 16800500>>, <<41050512, 17080001>> }

IncidentRow(pt) == <<2023, pt[1], pt[2]>>

FewIncidents ==
  {Table(IncidentColumns, [j \in DOMAIN pts |-> IncidentRow(pts[j])]) :
     pts \in SeqsUpTo(PointChoices, MaxIncidents)}

\* single incidents on every cell boundary the bounding box contains
BoundaryPoints ==
  {<<k * 3000, 16800500>> : k \in 13674..13723} \cup
  {<<41050500, k * 4000>> : k \in 4180..4270}

BoundaryIncidents ==
  {Table(IncidentColumns, <<IncidentRow(pt)>>) : pt \in BoundaryPoints}

\* many incidents: two points inside the box and one outside, in turn
CyclePoints ==
  << <<41050512, 16800547>>, <<41171000, 17080000>>, <<41100000, 16720000>> >>

CycleTable(n) ==
  Table(IncidentColumns,
        [j \in 1..n |-> IncidentRow(CyclePoints[((j - 1) % 3) + 1])])

ManyIncidents ==
  {CycleTable(n) : n \in (3 * (PointCap \div 2) - 3) ..
                         (3 * (PointCap \div 2) + MaxOverCap)}

BaseIncidents ==
  Table(<<ColLon, ColLat2, ColLat>>,
        << <<16800000, 41050000, 0>>, <<17080001, 41050000, 0>>,
           <<16800500, 41050500, 0>> >>)

\* 2017 records: a year and the street name
StreetColumns == <<ColData, ColStreet>>

StreetNames == {"Via A", "Via B", "via a", NaN}

StreetTables ==
  {Table(StreetColumns, [j \in DOMAIN names |-> <<"2017", names[j]>>]) :
     names \in SeqsUpTo(StreetNames, MaxStreetRows)}

BaseStreets ==
  Table(StreetColumns,
        << <<"2017", "Via A">>, <<"2017", "Via A">>, <<"2017", "Via B">> >>)

Files(survey, incidents, streets) ==
  [survey |-> survey, incidents |-> incidents, streets |-> streets]

\* runs that end in each of the script's exceptions
FailingInputs ==
  { Files(NoTable, BaseIncidents, BaseStreets),
    Files(Table(<<ColZona, ColId>>, << <<"A", "1">> >>), BaseIncidents,
          BaseStreets),
    Files(BaseSurvey, NoTable, BaseStreets),
    Files(BaseSurvey, Table(<<ColData, ColLon>>, << <<2023, 16800000>> >>),
          BaseStreets),
    Files(BaseSurvey, Table(<<ColLat, ColData>>, << <<41050000, 2023>> >>),
          BaseStreets),
    Files(BaseSurvey, Table(IncidentColumns, << >>), BaseStreets),
    Files(BaseSurvey, BaseIncidents, NoTable),
    Files(BaseSurvey, BaseIncidents,
          Table(<<ColData, ColStreetOther>>, << <<"2017", "Via A">> >>)) }

SurveyInputs ==
  {Files(s, BaseIncidents, BaseStreets) :
     s \in AnswerSurveys \cup SixSurveys \cup SpaccioOnlySurveys}

ColumnInputs == {Files(s, BaseIncidents, BaseStreets) : s \in LayoutSurveys}

IncidentInputs ==
  {Files(BaseSurvey, t, BaseStreets) : t \in FewIncidents \cup BoundaryIncidents}

CapInputs == {Files(BaseSurvey, t, BaseStreets) : t \in ManyIncidents}

StreetInputs == {Files(BaseSurvey, BaseIncidents, t) : t \in StreetTables}

\* a few of each, in every combination
MixedInputs ==
  {Files(s, t, u) :
     s \in {NoTable, BaseSurvey, Table(AnswerColumns, << >>),
            Table(<<ColZona, ColId>>, << <<"A", "1">> >>)},
     t \in {NoTable, BaseIncidents, Table(IncidentColumns, << >>),
            Table(<<ColData, ColLon>>, << <<2023, 16800000>> >>),
            Table(IncidentColumns, <<IncidentRow(<<41171000, 17080000>>)>>),
            Table(IncidentColumns, <<IncidentRow(<<41020000, 16720000>>)>>)},
     u \in {NoTable, BaseStreets, Table(StreetColumns, << >>),
            Table(StreetColumns, << <<"2017", "Via A">> >>),
            Table(<<ColData, ColStreetOther>>, << <<"2017", "Via A">> >>)}}

Init == input \in MixedInputs /\ Start
InitSurvey == input \in SurveyInputs \cup FailingInputs /\ Start
InitColumns == input \in ColumnInputs \cup FailingInputs /\ Start
InitIncidents == input \in IncidentInputs \cup FailingInputs /\ Start
InitCap == input \in CapInputs \cup FailingInputs /\ Start
InitStreets == input \in StreetInputs \cup FailingInputs /\ Start

Spec == Init /\ [][Next]_vars
SpecSurvey == InitSurvey /\ [][Next]_vars
SpecColumns == InitColumns /\ [][Next]_vars
SpecIncidents == InitIncidents /\ [][Next]_vars
SpecCap == InitCap /\ [][Next]_vars
SpecStreets == InitStreets /\ [][Next]_vars


(***************************************************************************)
(* Properties.  They are stated in integer arithmetic on the numerals of   *)
(* the files (thousandths for rates, micro-degrees for coordinates), apart *)
(* from the binary64 arithmetic of the run.                                *)
(***************************************************************************)
Abs(n) == IF n < 0 THEN -n ELSE n

RECURSIVE SumOver(_, _)
SumOver(f, S) ==
  IF S = {} THEN 0
  ELSE LET x == CHOOSE y \in S : TRUE IN f[x] + SumOver(f, S \ {x})

Output == outfile[1]

\* the weights, in hundredths
WeightHundredths ==
  [spaccio |-> 25, criminali |-> 25, ragazzini |-> 15, illuminazione |-> 15,
   degrado_marciapiedi |-> 10, barboni |-> 10]

\* 10^5 times the weighted sum of the rates a group has, an absent rate
\* counting 0
ExactWeightedSum(rate) ==
  SumOver([p \in ProblemNames |->
             IF p \in DOMAIN rate THEN WeightHundredths[p] * rate[p] ELSE 0],
          ProblemNames)

SpaccioExampleRows == << <<"A", "Sì">>, <<"A", "Sì">>, <<"A", "No">> >>

\* C1: in the written document every neighborhood's risk_score is the
\* weighted sum of its six rates (0.25, 0.25, 0.15, 0.15, 0.10, 0.10; an
\* absent rate contributes 0) rounded to 3 decimals, it lies in [0,1] when
\* every rate does, and three respondents of one neighborhood answering
\* Sì, Sì, No to spaccio alone give spaccio_rate 0.667 and risk_score 0.167.
RiskScoreIsRoundedWeightedSum ==
  pc = "done" =>
    /\ \A q \in DOMAIN Output.neighborhoodScores :
         LET s == Output.neighborhoodScores[q]
         IN  /\ Abs(100 * s.risk_score - ExactWeightedSum(s.rate)) <= 50
             /\ (\A p \in DOMAIN s.rate : s.rate[p] \in 0..1000)
                  => s.risk_score \in 0..1000
    /\ ( /\ input.survey.columns = <<ColQAbita, ColSpaccio1>>
         /\ input.survey.rows = SpaccioExampleRows )
       => /\ Output.neighborhoodScores["A"].rate = [spaccio |-> 667]
          /\ Output.neighborhoodScores["A"].risk_score = 167

\* the run of the example has finished: one rate, the other five absent
SpaccioExampleScored ==
  /\ pc = "done"
  /\ input.survey.columns = <<ColQAbita, ColSpaccio1>>
  /\ input.survey.rows = SpaccioExampleRows
  /\ DOMAIN Output.neighborhoodScores["A"].rate = {"spaccio"}
  /\ Output.neighborhoodScores["A"].risk_score = 167

\* the lookup tables, in tenths
YesTenths == ("Sì" :> 10) @@ ("Si" :> 10) @@ ("No" :> 0)

IntensityTenths ==
  ("Molto" :> 10) @@ ("Moltissimo" :> 10) @@ ("Abbastanza" :> 7) @@
  ("Poco" :> 3) @@ ("Per nulla" :> 0)

\* the respondents of neighborhood q, and those whose answer in column col
\* the lookup table has
GroupOf(q) ==
  {j \in DOMAIN df.rows : df.rows[j][ColumnIndex(df, q_col)] = q}

MappedIn(q, col, tenths) ==
  {j \in GroupOf(q) : df.rows[j][ColumnIndex(df, col)] \in DOMAIN tenths}

\* value, in thousandths, is the mean over the mapped answers of q in col
\* rounded to 3 decimals, and 0 when there is none
IsMeanOf(value, q, col, tenths) ==
  LET rows == MappedIn(q, col, tenths)
      n == Cardinality(rows)
      total == SumOver([j \in rows |-> tenths[df.rows[j][ColumnIndex(df, col)]]],
                       rows)
  IN  IF n = 0 THEN value = 0
      ELSE Abs(10 * n * value - 1000 * total) <= 5 * n

\* C2: every emitted rate and intensity is the mean, rounded to 3 decimals,
\* over only those answers of the group that the lookup table has (unmapped
\* and missing answers are in neither the sum nor the count), and is exactly
\* 0 when the group has no such answer.
MeanOverMappedAnswers ==
  pc = "done" =>
    \A q \in DOMAIN Output.neighborhoodScores :
      LET s == Output.neighborhoodScores[q]
      IN  /\ DOMAIN s.rate = {p \in ProblemNames : key_problems[p] # << >>}
          /\ DOMAIN s.intensity = {p \in ProblemNames : key_intensity[p] # << >>}
          /\ \A p \in DOMAIN s.rate :
               IsMeanOf(s.rate[p], q, key_problems[p][1], YesTenths)
          /\ \A p \in DOMAIN s.intensity :
               IsMeanOf(s.intensity[p], q, key_intensity[p][1], IntensityTenths)

\* neighborhood A has no answer the tables have, neighborhood B has one
\* mapped and one missing spaccio answer
UnmappedAnswersLeftOut ==
  /\ pc = "done"
  /\ input.survey.columns = AnswerColumns
  /\ input.survey.rows =
       << <<"A", "Non so", NaN, NaN, "Selezionato">>,
          <<"B", "Sì", "Per nulla", "Sì", "Selezionato">>,
          <<"B", NaN, "Moltissimo", "No", NaN>> >>
  /\ Output.neighborhoodScores["A"].rate["spaccio"] = 0
  /\ Output.neighborhoodScores["A"].intensity["spaccio"] = 0
  /\ Output.neighborhoodScores["B"].rate["spaccio"] = 1000
  /\ Output.neighborhoodScores["B"].intensity["spaccio"] = 500

\* the three files are readable and the columns the script needs resolve
RequiredInputsResolve ==
  /\ input.survey.exists /\ input.incidents.exists /\ input.streets.exists
  /\ q_col_of(input.survey.columns) # None
  /\ lat_cols_of(input.incidents.columns) # << >>
  /\ lon_cols_of(input.incidents.columns) # << >>
  /\ street_cols_of(input.streets.columns) # << >>

FiveKeys ==
  {"neighborhoodScores", "incidentGrid", "gridConfig", "dangerousStreets",
   "incidentPoints2023"}

\* C3: when the three tables are readable and their required columns
\* resolve the run does not abort, and the written document has the five
\* top-level keys, whatever the tables hold (no incident inside the box, no
\* survey row, no street with 2 records).
AllKeysWheneverInputsResolve ==
  /\ RequiredInputsResolve => pc # "aborted"
  /\ pc = "done" => DOMAIN Output = FiveKeys

\* the run over a table with no incident inside the box ends at line 143
EmptyGridAborts ==
  /\ pc = "aborted"
  /\ error = "ValueError"
  /\ RequiredInputsResolve
  /\ grid_counts = << >>
  /\ outfile = << >>

\* C4: the output path is written at most once, only by a run that has
\* finished the survey, incident and street stages; a run that aborts, a
\* file missing or a required column unmatched, has written nothing.
WrittenOnceAfterAllStages ==
  /\ writes <= 1
  /\ writes = 0 <=> outfile = << >>
  /\ pc = "aborted" => writes = 0
  /\ writes = 1 =>
       /\ pc = "done"
       /\ input.survey.exists /\ input.incidents.exists /\ input.streets.exists
       /\ lat_cols_of(input.incidents.columns) # << >>
       /\ lon_cols_of(input.incidents.columns) # << >>
       /\ street_cols_of(input.streets.columns) # << >>

\* a run that got through the survey and the incidents and found no street
\* column has left the output path untouched
LateAbortWritesNothing ==
  /\ pc = "aborted"
  /\ error = "IndexError"
  /\ Len(incident_points) > 0
  /\ input.streets.exists
  /\ outfile = << >>

\* the closed box, in micro-degrees
InBoxExact(lat, lon) ==
  /\ 41020000 <= lat /\ lat <= 41170000
  /\ 16720000 <= lon /\ lon <= 17080000

LatOf(r) == r[ColumnIndex(input.incidents, lat_col)]
LonOf(r) == r[ColumnIndex(input.incidents, lon_col)]

RetainedExact ==
  SelectSeq(input.incidents.rows, LAMBDA r : InBoxExact(LatOf(r), LonOf(r)))

\* C5: the records retained are those with 41.02 <= latitude <= 41.17 and
\* 16.72 <= longitude <= 17.08, bounds included, in file order; the grid
\* and the points of the document come from no other record.
ClosedBoundingBox ==
  /\ pc \in {"grid", "points", "unsafe", "write", "done"} =>
       df_bari = RetainedExact
  /\ pc = "done" =>
       /\ SumOver(Output.incidentGrid, DOMAIN Output.incidentGrid)
            = Len(RetainedExact)
       /\ \A j \in DOMAIN Output.incidentPoints2023 :
            \E k \in DOMAIN RetainedExact :
               /\ Abs(10 * Output.incidentPoints2023[j][1]
                        - LatOf(RetainedExact[k])) <= 5
               /\ Abs(10 * Output.incidentPoints2023[j][2]
                        - LonOf(RetainedExact[k])) <= 5

\* (41.02, 16.72) is kept and (41.171, 17.08) is dropped
CornerKeptOutsideDropped ==
  /\ pc = "done"
  /\ input.incidents.rows = << IncidentRow(<<41020000, 16720000>>),
                               IncidentRow(<<41171000, 17080000>>) >>
  /\ df_bari = << IncidentRow(<<41020000, 16720000>>) >>
  /\ Output.incidentPoints2023 = << <<4102000, 1672000>> >>

\* the cell of a point: floor(lat / 0.003) * 0.003 and
\* floor(lon / 0.004) * 0.004, as numerals * 10^4
ExactCell(lat, lon) == << (lat \div 3000) * 30, (lon \div 4000) * 40 >>

\* C6: every retained incident is counted under the key of the cell that
\* floor(lat / 0.003) and floor(lon / 0.004) give, so that a point on a
\* cell boundary has the key of the cell starting there, and (41.050,
\* 16.800) and (41.0505, 16.8005) have the same key.
GridKeyHasFloorSemantics ==
  pc = "done" =>
    \A j \in DOMAIN df_bari :
       ExactCell(LatOf(df_bari[j]), LonOf(df_bari[j]))
         \in DOMAIN Output.incidentGrid

\* the point (41.16, 16.8005), on the boundary 13720 * 0.003, is counted in
\* the cell that starts at 41.157
BoundaryPointInPrecedingCell ==
  /\ pc = "done"
  /\ input.incidents.rows = << IncidentRow(<<41160000, 16800500>>) >>
  /\ Output.incidentGrid = (<<411570, 168000>> :> 1)

StreetCells ==
  Column(input.streets, input.streets.rows, ColStreet)

Occurrences(name) ==
  Cardinality({j \in DOMAIN StreetCells : StreetCells[j] = name})

\* C7: a street name is in dangerousStreets exactly when it is not null and
\* at least 2 records of 2017 carry that very string, and its value is the
\* number of those records.
DangerousStreetsAreCountsFromTwo ==
  pc = "done" =>
    /\ \A name \in StreetNames :
         name \in DOMAIN Output.dangerousStreets
           <=> (name # NaN /\ Occurrences(name) >= 2)
    /\ \A name \in DOMAIN Output.dangerousStreets :
         /\ name \in StreetNames
         /\ Output.dangerousStreets[name] = Occurrences(name)

\* [Via A, Via A, Via B] gives {Via A: 2}
TwiceInOnceOut ==
  /\ pc = "done"
  /\ StreetCells = <<"Via A", "Via A", "Via B">>
  /\ Output.dangerousStreets = ("Via A" :> 2)

\* C8: incidentPoints2023 has min(500, retained) entries, and its j-th entry
\* is the j-th retained record of the file, rounded to 5 decimals.
PointsAreFirstRetainedInOrder ==
  pc = "done" =>
    /\ Len(Output.incidentPoints2023)
         = (IF Len(RetainedExact) < 500 THEN Len(RetainedExact) ELSE 500)
    /\ \A j \in DOMAIN Output.incidentPoints2023 :
         /\ Abs(10 * Output.incidentPoints2023[j][1]
                  - LatOf(RetainedExact[j])) <= 5
         /\ Abs(10 * Output.incidentPoints2023[j][2]
                  - LonOf(RetainedExact[j])) <= 5

\* more than 500 records were retained and 500 points were written
CapReached ==
  /\ pc = "done"
  /\ Len(RetainedExact) = 501
  /\ Len(incident_points) = 501
  /\ Len(Output.incidentPoints2023) = 500

KeyOfRow(r) == grid_key(Lat(r), Lon(r))

\* C9: incidentGrid[key] is the number of retained incidents whose grid_key
\* is key, every retained incident has its key in the grid, every count is
\* at least 1 and the counts add up to the number of retained incidents,
\* also when more than 500 are retained.
EveryRetainedIncidentCounted ==
  pc = "done" =>
    /\ \A key \in DOMAIN Output.incidentGrid :
         /\ Output.incidentGrid[key] >= 1
         /\ Output.incidentGrid[key]
              = Cardinality({j \in DOMAIN df_bari : KeyOfRow(df_bari[j]) = key})
    /\ \A r \in {df_bari[j] : j \in DOMAIN df_bari} :
         KeyOfRow(r) \in DOMAIN Output.incidentGrid
    /\ SumOver(Output.incidentGrid, DOMAIN Output.incidentGrid)
         = Len(RetainedExact)

\* more incidents are in the grid than points are in the document
GridCountsPastTheCap ==
  /\ pc = "done"
  /\ Len(Output.incidentPoints2023) = 500
  /\ SumOver(Output.incidentGrid, DOMAIN Output.incidentGrid) > 500

\* the column names that hold each vocabulary, whatever their case
PrimaryQuartiereNames == {ColQAbita, ColQQuale}
\* 'quartiere' is also part of every 'ProblemiQuartiere_...' name
BareQuartiereNames ==
  {ColQBare, ColQAbita, ColQQuale, ColSpaccio1, ColSpaccio1b, ColSpaccio2,
   ColSpaccio2b, ColCriminali1, ColRagazzini1, ColIlluminaz1, ColMarciapiedi1,
   ColBarboni1}

YesNames ==
  [spaccio |-> {ColSpaccio1, ColSpaccio1b}, criminali |-> {ColCriminali1},
   ragazzini |-> {ColRagazzini1}, illuminazione |-> {ColIlluminaz1},
   degrado_marciapiedi |-> {ColMarciapiedi1}, barboni |-> {ColBarboni1}]

IntensityNames ==
  [spaccio |-> {ColSpaccio2, ColSpaccio2b}, criminali |-> {},
   ragazzini |-> {}, illuminazione |-> {}, degrado_marciapiedi |-> {},
   barboni |-> {}]

\* the first column, in file order, whose name is in names; None without
FirstIn(columns, names) ==
  IF \E j \in DOMAIN columns : columns[j] \in names
    THEN columns[CHOOSE j \in DOMAIN columns :
                   /\ columns[j] \in names
                   /\ \A k \in 1..(j - 1) : columns[k] \notin names]
    ELSE None

\* C10: columns resolve by case-insensitive containment and the first match
\* in file order is the one used: the grouping column is the first column
\* of the primary neighborhood vocabulary, the first column holding the
\* bare 'quartiere' only when the primary vocabulary matches none, and each
\* problem's rate and intensity are computed from its first matching column.
FirstMatchUsedDownstream ==
  /\ pc \in {"scores", "incidents", "grid", "points", "unsafe", "write", "done"} =>
       /\ q_col = (IF FirstIn(df.columns, PrimaryQuartiereNames) # None
                     THEN FirstIn(df.columns, PrimaryQuartiereNames)
                     ELSE FirstIn(df.columns, BareQuartiereNames))
       /\ \A p \in ProblemNames :
            /\ key_problems[p] = << >> <=> FirstIn(df.columns, YesNames[p]) = None
            /\ key_intensity[p] = << >>
                 <=> FirstIn(df.columns, IntensityNames[p]) = None
  /\ pc = "done" =>
       /\ DOMAIN Output.neighborhoodScores
            = {df.rows[j][ColumnIndex(df, q_col)] : j \in DOMAIN df.rows} \ {NaN}
       /\ \A q \in DOMAIN Output.neighborhoodScores :
            LET s == Output.neighborhoodScores[q]
            IN  /\ \A p \in DOMAIN s.rate :
                     IsMeanOf(s.rate[p], q, FirstIn(df.columns, YesNames[p]),
                              YesTenths)
                /\ \A p \in DOMAIN s.intensity :
                     IsMeanOf(s.intensity[p], q,
                              FirstIn(df.columns, IntensityNames[p]),
                              IntensityTenths)

\* the bare 'Quartiere' comes first and two columns of the primary
\* vocabulary follow: the run groups by the first of the two
FirstPrimaryColumnGroups ==
  /\ pc = "done"
  /\ df.columns = <<ColQBare, ColQQuale, ColQAbita>>
  /\ q_col = ColQQuale
  /\ DOMAIN Output.neighborhoodScores = {"C"}

=============================================================================
